---- MODULE Spec2Model ----
(***************************************************************************)
(* Model of the revolving-credit amortization core of src/App.tsx:         *)
(* calculateProjectedInterest (lines 36-68) and calculateSimulation        *)
(* (lines 70-191).                                                         *)
(*                                                                         *)
(* Amounts are integers (yen).  annualInterestRate is held in tenths of a  *)
(* percent (the step of the rate input, line 352), so the source's         *)
(* Math.floor(balance * (annualInterestRate / 100 / 12)) is the exact      *)
(* floor of balance * rate / 12000.  The source computes in IEEE doubles;  *)
(* the model computes the exact rational value.                            *)
(*                                                                         *)
(* calculateSimulation is a loop; the model takes one step per loop        *)
(* iteration.  pc is the position in the function: "loop" at the while     *)
(* test (line 98), "after" behind the loop (line 180), "done" once the     *)
(* result is returned.  calculateProjectedInterest is a pure function of   *)
(* its three arguments and is an operator; the remainingInterest field of  *)
(* a trajectory record is that operator applied to the record's balance    *)
(* (lines 93, 135, 145) and is not stored a second time in the record.     *)
(* A run of the model is either one call of calculateSimulation or one     *)
(* direct call of calculateProjectedInterest (pc "proj", "projDone").      *)
(***************************************************************************)
EXTENDS Integers, Sequences, FiniteSets

VARIABLES params, balance, totalInterest, totalPaid, cumulativePrincipal,
          data, month, isInfinite, pc, projArgs, projResult

vars == <<params, balance, totalInterest, totalPaid, cumulativePrincipal,
          data, month, isInfinite, pc, projArgs, projResult>>

simVars == <<params, balance, totalInterest, totalPaid, cumulativePrincipal,
             data, month, isInfinite>>

(* ---------------- program constants ---------------- *)

MAX_PROJ_MONTHS == 600

MAX_MONTHS == 600

\* annualInterestRate / 100 / 12 with the rate in tenths of a percent
MonthlyRateDivisor == 12000

RunawayFactor == 5

RunawayFloor == 1000000

StableTolerance == 10

(* ---------------- bounds of the checked input space ---------------- *)

MaxBalanceSteps == 4

MaxChargeSteps == 2

MaxRepaySteps == 2

(* ---------------- arithmetic ---------------- *)

\* the interest rounded up instead of down
Interest_roundedUp(bal, rate) ==
    (bal * rate + MonthlyRateDivisor - 1) \div MonthlyRateDivisor

\* Math.floor(balance * monthlyRate); \div rounds toward minus infinity
\* for a positive divisor, as Math.floor does.
Interest(bal, rate) == (bal * rate) \div MonthlyRateDivisor

\* let payment = monthlyRepayment; if (bal + interest <= payment) payment = bal + interest
Payment(bal, interest, monthlyRepayment) ==
    IF bal + interest <= monthlyRepayment THEN bal + interest ELSE monthlyRepayment

Principal(bal, rate, monthlyRepayment) ==
    Payment(bal, Interest(bal, rate), monthlyRepayment) - Interest(bal, rate)

Abs(x) == IF x < 0 THEN -x ELSE x

(* ---------------- calculateProjectedInterest ---------------- *)

\* the interest of a pass added behind the break of line 64, so that the
\* interest of the payoff pass is never counted
ProjBody_interestAfterBreak(s, monthlyRepayment, rate) ==
    IF s.currentBal <= 0 THEN s
    ELSE LET interest  == Interest(s.currentBal, rate)
             payment   == Payment(s.currentBal, interest, monthlyRepayment)
             principal == payment - interest
             newBal    == s.currentBal - principal
         IN  [totalInt |-> IF newBal <= 0 THEN s.totalInt
                           ELSE s.totalInt + interest,
              iterations |-> s.iterations + 1,
              currentBal |-> newBal]

\* the body of the for loop, lines 49-64, run from the loop state s; a loop
\* that has left through the break of line 64 runs no further body
ProjBody(s, monthlyRepayment, rate) ==
    IF s.currentBal <= 0 THEN s
    ELSE LET interest  == Interest(s.currentBal, rate)
             payment   == Payment(s.currentBal, interest, monthlyRepayment)
             principal == payment - interest
         IN  [totalInt |-> s.totalInt + interest, iterations |-> s.iterations + 1,
              currentBal |-> s.currentBal - principal]

RECURSIVE ProjLoop(_, _, _, _)
\* n consecutive passes of the for loop of line 48, run as two halves (the
\* evaluation depth stays logarithmic in n); the break of line 64 ends it
ProjLoop(s, n, monthlyRepayment, rate) ==
    IF n = 0 THEN s
    ELSE IF n = 1 THEN ProjBody(s, monthlyRepayment, rate)
    ELSE LET half == ProjLoop(s, n \div 2, monthlyRepayment, rate)
         IN  IF half.currentBal <= 0 THEN half
             ELSE ProjLoop(half, n - (n \div 2), monthlyRepayment, rate)

\* the whole call, with the number of loop bodies it ran
ProjRun(bal, monthlyRepayment, rate) ==
    IF bal <= 0
    THEN [totalInt |-> 0, iterations |-> 0, currentBal |-> bal]
    ELSE ProjLoop([totalInt |-> 0, iterations |-> 0, currentBal |-> bal],
                  MAX_PROJ_MONTHS, monthlyRepayment, rate)

calculateProjectedInterest(bal, monthlyRepayment, rate) ==
    ProjRun(bal, monthlyRepayment, rate).totalInt

\* the remainingInterest field of a trajectory record
remainingInterest(rec) ==
    calculateProjectedInterest(rec.balance, params.monthlyRepayment,
                               params.annualInterestRate)

(* ---------------- inputs ---------------- *)

SimulationParams(ib, nc, rp, rt) ==
    [initialBalance |-> ib, monthlyNewCharge |-> nc,
     monthlyRepayment |-> rp, annualInterestRate |-> rt]

\* a grid of small accounts, at 0% and at 18.0%
GridInputs ==
    { SimulationParams(500 * b, 500 * c, 500 * r, rt) :
        b \in 0..MaxBalanceSteps, c \in 0..MaxChargeSteps,
        r \in 0..MaxRepaySteps, rt \in {0, 180} }

\* the default form values (lines 257-260), the scenarios of the
\* specification, and inputs typed into the number fields (line 218), which
\* are passed on unclamped
ScenarioInputs ==
    { SimulationParams(300000, 0, 5000, 180),     \* default form values
      SimulationParams(1000000, 0, 1000, 180),    \* repayment below interest
      SimulationParams(1000000, 0, 500, 12),      \* slow growth, never runs away
      SimulationParams(100000, 0, 1000, 120),     \* repayment equals interest
      SimulationParams(100000, 100000, 0, 0),     \* charges only
      SimulationParams(600, 0, 1, 0),             \* paid off in month 600
      SimulationParams(601, 0, 1, 0),             \* one yen left after month 600
      SimulationParams(1200, 0, 2, 0),
      SimulationParams(30000, 0, 5000, 180),
      SimulationParams(1000, 0, 100, -120),       \* negative rate
      SimulationParams(1000, 200, 100, -120),
      SimulationParams(-500, 0, 1000, 180),       \* negative balance
      SimulationParams(2000, -500, 500, 0),       \* negative charge
      SimulationParams(1000, 0, -500, 0),         \* negative repayment
      SimulationParams(1, 8, -1, 0),
      SimulationParams(10, 0, 19, 24000),         \* 2400% per year
      SimulationParams(2, 8, 1, 12000),           \* 1200% per year
      SimulationParams(1200, 9, 0, 10) }

Inputs == GridInputs \cup ScenarioInputs

\* arguments of direct calls of calculateProjectedInterest
ProjInputs ==
    { [balance |-> b, monthlyRepayment |-> r, annualInterestRate |-> rt] :
        b \in {-500, 0, 500, 1000, 30000, 100000},
        r \in {0, 100, 500, 5000}, rt \in {-120, 0, 12, 24} }

NoParams == SimulationParams(0, 0, 0, 0)

NoArgs == [balance |-> 0, monthlyRepayment |-> 0, annualInterestRate |-> 0]

NoResult == [totalInt |-> 0, iterations |-> 0, currentBal |-> 0]

(* ---------------- calculateSimulation ---------------- *)

MonthData(m, bal, principal, interest, payment, cumInt, cumPrin) ==
    [month |-> m, balance |-> bal, principalPaid |-> principal,
     interestPaid |-> interest, totalPaid |-> payment,
     cumulativeInterest |-> cumInt, cumulativePrincipal |-> cumPrin]

\* the trajectory numbered from 1
Month0Record_oneBased(p) == MonthData(1, p.initialBalance, 0, 0, 0, 0, 0)

\* data.push of lines 85-94
Month0Record(p) == MonthData(0, p.initialBalance, 0, 0, 0, 0, 0)

\* the whole monthlyRepayment taken off the balance, with neither the payoff
\* cap of lines 108-110 nor the safety floor of line 127
NextBalance_uncapped(bal, principal, monthlyNewCharge) ==
    bal - (params.monthlyRepayment - Interest(bal, params.annualInterestRate))
        + monthlyNewCharge

\* lines 124-127: balance - principal + monthlyNewCharge, floored at 0
NextBalance(bal, principal, monthlyNewCharge) ==
    IF bal - principal + monthlyNewCharge < 0 THEN 0
    ELSE bal - principal + monthlyNewCharge

\* the month cap tested with <= instead of <
LoopCondition_offByOne == balance > 0 /\ month <= MAX_MONTHS

\* line 98
LoopCondition == balance > 0 /\ month < MAX_MONTHS

\* line 115
Runaway == balance > params.initialBalance * RunawayFactor /\ balance > RunawayFloor

\* line 151
PaidOff(bal) == bal <= 0

\* the balance compared with 0 instead of monthlyRepayment
BelowRepayment_zero(bal) == bal < 0

\* line 157
BelowRepayment(bal) == bal < params.monthlyRepayment

\* line 163
Stabilized(bal, prevBalance) ==
    params.monthlyNewCharge > 0 /\ Abs(bal - prevBalance) <= StableTolerance

\* the low-balance threshold at 2 charges instead of 1.5
StableLow_double(bal) == bal <= 2 * params.monthlyNewCharge

\* line 166: balance <= monthlyNewCharge * 1.5
StableLow(bal) == 2 * bal <= 3 * params.monthlyNewCharge

\* line 172
DebtTrap(bal) == bal > params.monthlyRepayment

\* the loop is left by one of the break statements of lines 151-175
Breaks(bal, prevBalance) ==
    \/ PaidOff(bal)
    \/ BelowRepayment(bal)
    \/ Stabilized(bal, prevBalance) /\ (StableLow(bal) \/ DebtTrap(bal))

\* the break of line 174, the only one behind an assignment to isInfinite
TrapBreak(bal, prevBalance) ==
    /\ ~PaidOff(bal)
    /\ ~BelowRepayment(bal)
    /\ Stabilized(bal, prevBalance)
    /\ ~StableLow(bal)
    /\ DebtTrap(bal)

InitSim ==
    \E p \in Inputs :
        /\ params = p
        /\ balance = p.initialBalance
        /\ totalInterest = 0
        /\ totalPaid = 0
        /\ cumulativePrincipal = 0
        /\ data = <<Month0Record(p)>>
        /\ month = 0
        /\ isInfinite = FALSE
        /\ pc = "loop"
        /\ projArgs = NoArgs
        /\ projResult = NoResult

InitProj ==
    \E a \in ProjInputs :
        /\ projArgs = a
        /\ projResult = NoResult
        /\ pc = "proj"
        /\ params = NoParams
        /\ balance = 0
        /\ totalInterest = 0
        /\ totalPaid = 0
        /\ cumulativePrincipal = 0
        /\ data = <<Month0Record(NoParams)>>
        /\ month = 0
        /\ isInfinite = FALSE

Init == InitSim \/ InitProj

\* the while test fails (line 98)
LoopExit ==
    /\ pc = "loop"
    /\ ~LoopCondition
    /\ pc' = "after"
    /\ UNCHANGED <<simVars, projArgs, projResult>>

\* the runaway guard placed behind the update of lines 124-146
RunawayBreak_afterUpdate ==
    /\ pc = "loop"
    /\ LoopCondition
    /\ Runaway
    /\ LET interest   == Interest(balance, params.annualInterestRate)
           payment    == Payment(balance, interest, params.monthlyRepayment)
           principal  == payment - interest
           newBalance == NextBalance(balance, principal, params.monthlyNewCharge)
       IN  /\ month' = month + 1
           /\ balance' = newBalance
           /\ totalInterest' = totalInterest + interest
           /\ totalPaid' = totalPaid + payment
           /\ cumulativePrincipal' = cumulativePrincipal + principal
           /\ data' = Append(data,
                        MonthData(month + 1, newBalance, principal, interest,
                                  payment, totalInterest + interest,
                                  cumulativePrincipal + principal))
    /\ isInfinite' = TRUE
    /\ pc' = "after"
    /\ UNCHANGED <<params, projArgs, projResult>>

\* lines 99-118: month++, then the runaway guard breaks out of the loop
RunawayBreak ==
    /\ pc = "loop"
    /\ LoopCondition
    /\ Runaway
    /\ month' = month + 1
    /\ isInfinite' = TRUE
    /\ pc' = "after"
    /\ UNCHANGED <<params, balance, totalInterest, totalPaid,
                   cumulativePrincipal, data, projArgs, projResult>>

\* lines 99-176: one full iteration of the loop body
MonthStep ==
    /\ pc = "loop"
    /\ LoopCondition
    /\ ~Runaway
    /\ LET interest    == Interest(balance, params.annualInterestRate)
           payment     == Payment(balance, interest, params.monthlyRepayment)
           principal   == Principal(balance, params.annualInterestRate,
                                    params.monthlyRepayment)
           prevBalance == balance
           newBalance  == NextBalance(balance, principal, params.monthlyNewCharge)
       IN  /\ month' = month + 1
           /\ balance' = newBalance
           /\ totalInterest' = totalInterest + interest
           /\ totalPaid' = totalPaid + payment
           /\ cumulativePrincipal' = cumulativePrincipal + principal
           /\ data' = Append(data,
                        MonthData(month + 1, newBalance, principal, interest,
                                  payment, totalInterest + interest,
                                  cumulativePrincipal + principal))
           /\ isInfinite' = IF TrapBreak(newBalance, prevBalance) THEN TRUE
                            ELSE isInfinite
           /\ pc' = IF Breaks(newBalance, prevBalance) THEN "after" ELSE "loop"
    /\ UNCHANGED <<params, projArgs, projResult>>

\* the cap tested with > instead of >=
CapReached_strict == month > MAX_MONTHS

\* line 180
CapReached == month >= MAX_MONTHS

\* lines 180-190
Return ==
    /\ pc = "after"
    /\ isInfinite' = IF CapReached THEN TRUE ELSE isInfinite
    /\ pc' = "done"
    /\ UNCHANGED <<params, balance, totalInterest, totalPaid,
                   cumulativePrincipal, data, month, projArgs, projResult>>

\* a direct call of calculateProjectedInterest
Project ==
    /\ pc = "proj"
    /\ projResult' = ProjRun(projArgs.balance, projArgs.monthlyRepayment,
                             projArgs.annualInterestRate)
    /\ pc' = "projDone"
    /\ UNCHANGED <<simVars, projArgs>>

Next == LoopExit \/ RunawayBreak \/ MonthStep \/ Return \/ Project

Spec == Init /\ [][Next]_vars

\* the SimulationResult returned at line 184
result ==
    [data |-> data, totalInterest |-> totalInterest, totalPaid |-> totalPaid,
     months |-> month, isInfinite |-> isInfinite]

TypeOK ==
    /\ pc \in {"loop", "after", "done", "proj", "projDone"}
    /\ month \in 0..MAX_MONTHS
    /\ isInfinite \in BOOLEAN

(* ---------------- properties ---------------- *)

NonNegativeParams ==
    /\ params.initialBalance >= 0
    /\ params.monthlyNewCharge >= 0
    /\ params.monthlyRepayment >= 0
    /\ params.annualInterestRate >= 0

Last == data[Len(data)]

Min(a, b) == IF a <= b THEN a ELSE b

Max(a, b) == IF a >= b THEN a ELSE b

\* Scenario A, the default form values
ScenarioA == SimulationParams(300000, 0, 5000, 180)

\* C1 as stated: for non-negative params, a result with isInfinite = false
\* has a last record with balance <= monthlyRepayment or balance = 0.
C1_LastBalanceSmall ==
    (pc = "done" /\ NonNegativeParams /\ ~isInfinite)
        => (Last.balance <= params.monthlyRepayment \/ Last.balance = 0)

\* C1, amended: for non-negative params, a result with isInfinite = false has
\* a last record with balance <= monthlyRepayment, or balance = 0, or the run
\* stopped in the stable low-balance branch: monthlyNewCharge > 0, the balance
\* moved by at most 10 in the last month and balance <= monthlyNewCharge * 1.5.
C1_LastBalanceSmallOrStableLow ==
    (pc = "done" /\ NonNegativeParams /\ ~isInfinite)
        => \/ Last.balance <= params.monthlyRepayment
           \/ Last.balance = 0
           \/ /\ Len(data) >= 2
              /\ params.monthlyNewCharge > 0
              /\ Abs(Last.balance - data[Len(data) - 1].balance) <= 10
              /\ 2 * Last.balance <= 3 * params.monthlyNewCharge

\* a finished run that stopped in the stable low-balance branch, above the
\* monthly repayment
C1_Witness ==
    /\ pc = "done"
    /\ NonNegativeParams
    /\ ~isInfinite
    /\ Len(data) >= 2
    /\ Last.balance > params.monthlyRepayment
    /\ 2 * Last.balance <= 3 * params.monthlyNewCharge

\* C2: for non-negative params, cumulativePrincipal is non-decreasing along
\* the trajectory, months with monthlyRepayment below the interest included.
C2_CumulativePrincipalMonotone ==
    NonNegativeParams
        => \A i \in 1..(Len(data) - 1) :
              data[i + 1].cumulativePrincipal >= data[i].cumulativePrincipal

\* C3: a run whose loop stopped because the balance reached 0 or fell below
\* monthlyRepayment, in any month from 1 to 600, returns isInfinite = false.
C3_FinishedNeverStuck ==
    (/\ pc = "done"
     /\ Len(data) >= 2
     /\ Last.month = month
     /\ (Last.balance <= 0 \/ Last.balance < params.monthlyRepayment))
        => ~isInfinite

\* C4 as stated: a month whose updated balance equals monthlyRepayment
\* exactly (and is > 0) is the last month of the run: its record is the last
\* record and months is its month.
C4_StopsAtExactRepayment ==
    pc = "done"
        => \A i \in 2..Len(data) :
              (data[i].balance = params.monthlyRepayment /\ data[i].balance > 0)
                  => (i = Len(data) /\ result.months = data[i].month)

\* C4, amended: a month whose updated balance is strictly below
\* monthlyRepayment (and is > 0) is the last month of the run: its record is
\* the last record and months is its month.
C4_StopsBelowRepayment ==
    pc = "done"
        => \A i \in 2..Len(data) :
              (data[i].balance < params.monthlyRepayment /\ data[i].balance > 0)
                  => (i = Len(data) /\ result.months = data[i].month)

\* a finished run whose last month left a positive balance below the
\* monthly repayment
C4_Witness ==
    /\ pc = "done"
    /\ Len(data) >= 2
    /\ Last.balance > 0
    /\ Last.balance < params.monthlyRepayment

\* the precondition of Scenario C: repayment below the first month's interest
RepaymentBelowFirstInterest ==
    /\ params.initialBalance > 0
    /\ params.monthlyNewCharge >= 0
    /\ params.monthlyRepayment
          < Interest(params.initialBalance, params.annualInterestRate)

\* C5 as stated: with initialBalance > 0, monthlyNewCharge >= 0 and
\* monthlyRepayment below the first month's interest, the run ends with
\* isInfinite = true.
C5_BelowInterestIsInfinite ==
    (pc = "done" /\ RepaymentBelowFirstInterest) => isInfinite

\* C5, amended: with non-negative params, annualInterestRate <= 100 (percent),
\* initialBalance > 0 and monthlyRepayment below the first month's interest,
\* the run ends with isInfinite = true.
C5_BelowInterestIsInfiniteSaneRate ==
    (/\ pc = "done"
     /\ RepaymentBelowFirstInterest
     /\ NonNegativeParams
     /\ params.annualInterestRate <= 1000)
        => isInfinite

\* a finished run of such an account, its balance above where it started
C5_Witness ==
    /\ pc = "done"
    /\ RepaymentBelowFirstInterest
    /\ NonNegativeParams
    /\ params.annualInterestRate <= 1000
    /\ Last.balance > params.initialBalance
    /\ isInfinite

\* C6: for non-negative params, every record of the trajectory, month 0
\* included, has balance >= 0.
C6_BalanceNonNegative ==
    NonNegativeParams => \A i \in 1..Len(data) : data[i].balance >= 0

\* a payoff month: the payment was capped to balance + interest and the
\* balance came down to exactly 0
C6_Witness ==
    /\ NonNegativeParams
    /\ Len(data) >= 2
    /\ Last.balance = 0
    /\ Last.totalPaid < params.monthlyRepayment

\* C7: cumulativeInterest is non-decreasing along the trajectory for all
\* accepted inputs, zero and negative rates included.
C7_CumulativeInterestMonotone ==
    \A i \in 1..(Len(data) - 1) :
        data[i + 1].cumulativeInterest >= data[i].cumulativeInterest

\* C8: data[0] is the month-0 record (month 0, balance = initialBalance, all
\* paid amounts and running totals 0) and the record at index i has month i.
\* (data is 1-based here: data[i] is the source's data[i - 1].)
C8_MonthIndexed ==
    /\ data[1].month = 0
    /\ data[1].balance = params.initialBalance
    /\ data[1].principalPaid = 0
    /\ data[1].interestPaid = 0
    /\ data[1].totalPaid = 0
    /\ data[1].cumulativeInterest = 0
    /\ data[1].cumulativePrincipal = 0
    /\ \A i \in 1..Len(data) : data[i].month = i - 1

\* a trajectory of several months
C8_Witness == pc = "done" /\ Len(data) >= 4

\* C9: the month loop runs at most 600 times (months <= 600, trajectory
\* length <= 601) and a call of calculateProjectedInterest runs at most 600
\* loop bodies, also when the balance never declines.
C9_Bounded ==
    /\ month <= 600
    /\ result.months <= 600
    /\ Len(data) <= 601
    /\ projResult.iterations <= 600

\* a run that used all 600 months while its balance never declined
C9_Witness ==
    /\ pc = "done"
    /\ month = 600
    /\ Len(data) = 601
    /\ params.initialBalance > 0
    /\ \A i \in 1..(Len(data) - 1) : data[i + 1].balance >= data[i].balance

\* C10: every record of a month m >= 1 follows the interest-then-principal
\* rule from the previous balance b: interestPaid = floor(b * rate / 100 / 12),
\* totalPaid = min(monthlyRepayment, b + interestPaid), principalPaid =
\* totalPaid - interestPaid, balance = max(0, b - principalPaid + charge);
\* Scenario A has interest 4500, principal 500 and balance 299500 in month 1.
C10_MonthRule ==
    /\ \A i \in 2..Len(data) :
          LET b == data[i - 1].balance
              r == data[i]
          IN  /\ r.interestPaid = (b * params.annualInterestRate) \div 12000
              /\ r.totalPaid = Min(params.monthlyRepayment, b + r.interestPaid)
              /\ r.principalPaid = r.totalPaid - r.interestPaid
              /\ r.balance = Max(0, b - r.principalPaid + params.monthlyNewCharge)
    /\ (params = ScenarioA /\ Len(data) >= 2)
          => /\ data[2].interestPaid = 4500
             /\ data[2].principalPaid = 500
             /\ data[2].balance = 299500

\* Scenario A after its first month
C10_Witness == params = ScenarioA /\ Len(data) >= 2 /\ data[2].month = 1

\* C11: when the runaway guard fires at the start of a month (balance >
\* initialBalance * 5 and balance > 1000000), the step sets isInfinite = true
\* and leaves the loop before the month's update: balance, totalInterest,
\* totalPaid and cumulativePrincipal keep their values and no record is
\* appended.
C11_RunawayFrame ==
    [][(/\ pc = "loop"
        /\ balance > 0
        /\ month < 600
        /\ balance > params.initialBalance * 5
        /\ balance > 1000000)
          => (/\ isInfinite' = TRUE
              /\ pc' = "after"
              /\ balance' = balance
              /\ totalInterest' = totalInterest
              /\ totalPaid' = totalPaid
              /\ cumulativePrincipal' = cumulativePrincipal
              /\ data' = data)]_vars

\* the guard has fired: the loop is left in a month that has no record, with
\* the balance of the last record above both thresholds
C11_Witness ==
    /\ pc = "after"
    /\ isInfinite
    /\ month = Last.month + 1
    /\ balance = Last.balance
    /\ balance > params.initialBalance * 5
    /\ balance > 1000000

\* C12: in every returned result, months is the month of the last trajectory
\* record (trajectory length = months + 1) and totalInterest is the last
\* record's cumulativeInterest, on every exit path, the runaway exit included.
C12_MonthsMatchTrajectory ==
    pc = "done"
        => /\ result.months = result.data[Len(result.data)].month
           /\ Len(result.data) = result.months + 1
           /\ result.totalInterest
                 = result.data[Len(result.data)].cumulativeInterest

\* the precondition of C13: no new charges, and the projection from the
\* initial balance reaches payoff within its 600 passes.  The second conjunct
\* follows from the third (at a positive rate, a positive balance whose
\* repayment does not exceed its interest never declines); it is tested first
\* so that the projection is only run where its balance does not compound.
ProjectionPaysOff ==
    /\ params.monthlyNewCharge = 0
    /\ (params.annualInterestRate > 0 /\ params.initialBalance > 0)
          => params.monthlyRepayment
                > Interest(params.initialBalance, params.annualInterestRate)
    /\ ProjRun(params.initialBalance, params.monthlyRepayment,
               params.annualInterestRate).currentBal <= 0

\* C13: when monthlyNewCharge = 0 and the projection from initialBalance
\* reaches payoff within its cap, every record of the returned trajectory has
\* cumulativeInterest + remainingInterest equal to the remainingInterest of
\* the month-0 record.
C13_InterestConserved ==
    (pc = "done" /\ ProjectionPaysOff)
        => \A i \in 1..Len(data) :
              data[i].cumulativeInterest + remainingInterest(data[i])
                  = remainingInterest(data[1])

\* a finished run of several months that has paid interest and still has
\* interest to come
C13_Witness ==
    /\ pc = "done"
    /\ ProjectionPaysOff
    /\ Len(data) >= 3
    /\ Last.cumulativeInterest > 0
    /\ remainingInterest(Last) > 0
====
